---- MODULE Spec2Model ----
(***************************************************************************)
(* The JSON file store of backend/server.py (safe_load_json,               *)
(* safe_save_json, init_critical_files, load_data) and the request         *)
(* handlers that mutate the in-memory collections and flush them.          *)
(*                                                                         *)
(* Files are modelled at the level of a POSIX directory: names map to      *)
(* inodes, an open file descriptor keeps writing to its inode after the    *)
(* name was renamed or removed.  File contents are sequences of lexical    *)
(* tokens, written by json.dump and read back by json.loads.               *)
(***************************************************************************)
EXTENDS Integers, Sequences, FiniteSets, TLC

VARIABLES dir, ino, db, proc, phase, conc, faults, clock, rd, calls, pre, base, hist,
          halted, otp_storage, otp_wins

vars == <<dir, ino, db, proc, phase, conc, faults, clock, rd, calls, pre, base, hist, halted, otp_storage, otp_wins>>

(***************************************************************************)
(* Bounds of the model.                                                    *)
(***************************************************************************)
\* environment faults (I/O errors raised inside safe_save_json) per run
MaxFaults == 1
\* flushes of the buffered temporary file per json.dump
NumWrites == 2
\* handler invocations per run
MaxCalls == 2
\* milliseconds the clock can advance
MaxClock == 1
\* requests to the OTP handlers per run
MaxOtpCalls == 3

\* otp_storage = {}: phone -> the code sent to it
Phones == {"9000000001", "9000000002"}
NoOtps == [phone \in {} |-> ""]

(***************************************************************************)
(* JSON values, as Python holds them.  A dict is a function from its keys; *)
(* KeyOrder is the order in which the code's dict literals insert them.    *)
(***************************************************************************)
JVal(k, n, str, items, map) == [k |-> k, n |-> n, s |-> str, items |-> items, map |-> map]
JNull == JVal("null", 0, "", <<>>, <<>>)
JBool(b) == JVal("bool", IF b THEN 1 ELSE 0, "", <<>>, <<>>)
JInt(n) == JVal("int", n, "", <<>>, <<>>)
JStr(str) == JVal("str", 0, str, <<>>, <<>>)
JList(items) == JVal("list", 0, "", items, <<>>)
JDict(map) == JVal("dict", 0, "", <<>>, map)

EmptyList == JList(<<>>)
EmptyDict == JDict(<<>>)

KeyOrder ==
  <<"id", "user", "amount", "timestamp", "status",
    "time", "name", "phone", "address", "total", "payment", "items",
    "cart_details", "delivery_status", "payment_status",
    "in_stock", "weekend_discount">>

RECURSIVE SetToSeq(_)
SetToSeq(S) ==
  IF S = {} THEN <<>> ELSE LET x == CHOOSE y \in S : TRUE IN <<x>> \o SetToSeq(S \ {x})

\* the keys of a dict in the order json.dump writes them
DictKeys(f) ==
  SelectSeq(KeyOrder, LAMBDA key : key \in DOMAIN f)
    \o SetToSeq(DOMAIN f \ {KeyOrder[n] : n \in 1..Len(KeyOrder)})

(***************************************************************************)
(* Tokens of a file's text.                                                *)
(***************************************************************************)
Tok(t, str, n) == [t |-> t, s |-> str, n |-> n]
P(c) == Tok("p", c, 0)                \* punctuation [ ] { } , :
StrTok(str) == Tok("s", str, 0)       \* a quoted string
NumTok(n) == Tok("n", "", n)          \* a number
LitTok(str) == Tok("l", str, 0)       \* true false null
WS(lvl) == Tok("w", "", lvl)          \* newline and 4*lvl spaces
Junk == Tok("g", "not json", 0)       \* text that is no JSON token
Nul == Tok("z", "", 0)                \* the zero bytes of a hole

IsWS(tok) == tok.t = "w"

(***************************************************************************)
(* json.dump(data, f, indent=4): the text of a value.                      *)
(***************************************************************************)
RECURSIVE DumpAt(_, _), DumpItems(_, _, _), DumpMembers(_, _, _)

DumpAt(val, lvl) ==
  CASE val.k = "null" -> <<LitTok("null")>>
    [] val.k = "bool" -> <<LitTok(IF val.n = 1 THEN "true" ELSE "false")>>
    [] val.k = "int" -> <<NumTok(val.n)>>
    [] val.k = "str" -> <<StrTok(val.s)>>
    [] val.k = "list" ->
         IF val.items = <<>> THEN <<P("["), P("]")>>
         ELSE <<P("[")>> \o DumpItems(val.items, 1, lvl + 1) \o <<WS(lvl), P("]")>>
    [] val.k = "dict" ->
         IF DOMAIN val.map = {} THEN <<P("{"), P("}")>>
         ELSE <<P("{")>> \o DumpMembers(val.map, DictKeys(val.map), lvl + 1)
                \o <<WS(lvl), P("}")>>

DumpItems(s, i, lvl) ==
  IF i > Len(s) THEN <<>>
  ELSE (IF i > 1 THEN <<P(",")>> ELSE <<>>) \o <<WS(lvl)>> \o DumpAt(s[i], lvl)
       \o DumpItems(s, i + 1, lvl)

DumpMembers(f, keys, lvl) ==
  IF keys = <<>> THEN <<>>
  ELSE <<WS(lvl), StrTok(Head(keys)), P(":")>> \o DumpAt(f[Head(keys)], lvl)
       \o (IF Len(keys) > 1 THEN <<P(",")>> ELSE <<>>)
       \o DumpMembers(f, Tail(keys), lvl)

Dump(val) == DumpAt(val, 0)

(***************************************************************************)
(* f.read().strip() and json.loads(content).                               *)
(***************************************************************************)
RECURSIVE Strip(_)
Strip(toks) ==
  IF toks = <<>> THEN <<>>
  ELSE IF IsWS(Head(toks)) THEN Strip(Tail(toks))
  ELSE IF IsWS(toks[Len(toks)]) THEN Strip(SubSeq(toks, 1, Len(toks) - 1))
  ELSE toks

ParseFail == [ok |-> FALSE, val |-> JNull, nxt |-> 0]
ParseOk(val, nxt) == [ok |-> TRUE, val |-> val, nxt |-> nxt]

RECURSIVE PValue(_, _), PItems(_, _, _), PMembers(_, _, _)

\* the value that starts at token i of t (t holds no whitespace)
PValue(t, i) ==
  IF i > Len(t) THEN ParseFail
  ELSE LET c == t[i] IN
    CASE c.t = "s" -> ParseOk(JStr(c.s), i + 1)
      [] c.t = "n" -> ParseOk(JInt(c.n), i + 1)
      [] c.t = "l" -> ParseOk(IF c.s = "null" THEN JNull ELSE JBool(c.s = "true"), i + 1)
      [] c = P("[") ->
           IF i + 1 <= Len(t) /\ t[i + 1] = P("]") THEN ParseOk(EmptyList, i + 2)
           ELSE PItems(t, i + 1, <<>>)
      [] c = P("{") ->
           IF i + 1 <= Len(t) /\ t[i + 1] = P("}") THEN ParseOk(EmptyDict, i + 2)
           ELSE PMembers(t, i + 1, <<>>)
      [] OTHER -> ParseFail

PItems(t, i, acc) ==
  LET r == PValue(t, i) IN
  IF ~r.ok \/ r.nxt > Len(t) THEN ParseFail
  ELSE IF t[r.nxt] = P(",") THEN PItems(t, r.nxt + 1, Append(acc, r.val))
  ELSE IF t[r.nxt] = P("]") THEN ParseOk(JList(Append(acc, r.val)), r.nxt + 1)
  ELSE ParseFail

PMembers(t, i, acc) ==
  IF i + 1 > Len(t) \/ t[i].t # "s" \/ t[i + 1] # P(":") THEN ParseFail
  ELSE LET r == PValue(t, i + 2)
           f == (t[i].s :> r.val) @@ acc
       IN IF ~r.ok \/ r.nxt > Len(t) THEN ParseFail
          ELSE IF t[r.nxt] = P(",") THEN PMembers(t, r.nxt + 1, f)
          ELSE IF t[r.nxt] = P("}") THEN ParseOk(JDict(f), r.nxt + 1)
          ELSE ParseFail

\* json.loads: one value, nothing but whitespace around it
Loads(content) ==
  LET t == SelectSeq(content, LAMBDA tok : ~IsWS(tok))
      r == PValue(t, 1)
  IN IF r.ok /\ r.nxt = Len(t) + 1 THEN r ELSE ParseFail

(***************************************************************************)
(* The declared collections, in the order of init_critical_files' table.   *)
(***************************************************************************)
Paths ==
  <<"pending", "approved", "users", "orders", "complaints", "feedback",
    "ratings", "activities", "products", "settings">>

PathSet == {Paths[n] : n \in 1..Len(Paths)}

DefaultSettings == JDict([weekend_discount |-> JInt(5)])

DefaultAllLists(path) == EmptyList

Default(path) ==
  CASE path = "users" -> EmptyDict
    [] path = "settings" -> DefaultSettings
    [] OTHER -> EmptyList

\* the declared shape of a collection: a mapping for users and settings
Shape(path) == IF path \in {"users", "settings"} THEN "dict" ELSE "list"

TempNameInPlace(path) == path

\* temp_file = filepath + '.tmp'
TempName(path) == path \o ".tmp"

Names == PathSet \cup {TempName(path) : path \in PathSet}

Procs == {"main", "w1", "w2"}
Workers == {"w1", "w2"}

(***************************************************************************)
(* The file system.  dir[name] is the inode a name is linked to (0: no     *)
(* such file), ino[i] the content of inode i.  An inode lives while a name *)
(* or an open descriptor refers to it.                                     *)
(***************************************************************************)
NoFile == [found |-> FALSE, content |-> <<>>]

FileAt(name) ==
  IF dir[name] = 0 THEN NoFile ELSE [found |-> TRUE, content |-> ino[dir[name]]]

OpenFds(pr) == {pr[q].fd : q \in DOMAIN pr} \ {0}

Collect(d, i, fds) ==
  [dir |-> d,
   ino |-> [j \in (DOMAIN i \cap ({d[n] : n \in DOMAIN d} \cup fds)) |-> i[j]]]

FreshIno(i) ==
  CHOOSE j \in 1..(Cardinality(DOMAIN i) + 1) :
    j \notin DOMAIN i /\ \A m \in 1..(j - 1) : m \in DOMAIN i

\* open(name, 'w'): truncate the file, or create it
FsOpenW(name) ==
  IF dir[name] # 0
  THEN [dir |-> dir, ino |-> [ino EXCEPT ![dir[name]] = <<>>], fd |-> dir[name]]
  ELSE LET j == FreshIno(ino) IN
       [dir |-> [dir EXCEPT ![name] = j], ino |-> (j :> <<>>) @@ ino, fd |-> j]

\* a write of chunk at byte offset off; a gap reads as zero bytes
WriteAt(content, off, chunk) ==
  LET n == IF Len(content) > off + Len(chunk) THEN Len(content) ELSE off + Len(chunk)
  IN [m \in 1..n |->
        IF m > off /\ m <= off + Len(chunk) THEN chunk[m - off]
        ELSE IF m <= Len(content) THEN content[m] ELSE Nul]

\* the first token of the n-th of NumWrites flushes of text, less one
ChunkStart(text, n) == ((n - 1) * Len(text)) \div NumWrites

Chunk(text, n) == SubSeq(text, ChunkStart(text, n) + 1, ChunkStart(text, n + 1))

\* the text is not empty and parses
Complete(content) == Strip(content) # <<>> /\ Loads(Strip(content)).ok

(***************************************************************************)
(* safe_load_json(filepath, default_value), on the files as they are.      *)
(***************************************************************************)
LoadResult(val, logged) == [val |-> val, logged |-> logged, raised |-> FALSE]

\* variants of safe_load_json with one plausible slip each
safe_load_json_falsy(path, dflt) ==
  IF dir[path] = 0 THEN LoadResult(dflt, FALSE)
  ELSE LET content == Strip(ino[dir[path]])
           r == Loads(content)
       IN IF content = <<>> THEN LoadResult(dflt, FALSE)
          ELSE IF ~r.ok THEN LoadResult(dflt, TRUE)
          ELSE IF r.val \in {JList(<<>>), JDict(<<>>), JNull, JStr(""), JInt(0), JBool(FALSE)}
               THEN LoadResult(dflt, FALSE)
          ELSE LoadResult(r.val, FALSE)

safe_load_json_none(path, dflt) ==
  IF dir[path] = 0 THEN LoadResult(JNull, FALSE)
  ELSE LET content == Strip(ino[dir[path]])
           r == Loads(content)
       IN IF content = <<>> THEN LoadResult(dflt, FALSE)
          ELSE IF r.ok THEN LoadResult(r.val, FALSE) ELSE LoadResult(dflt, TRUE)

safe_load_json_raises(path, dflt) ==
  IF dir[path] = 0 THEN LoadResult(dflt, FALSE)
  ELSE LET content == Strip(ino[dir[path]])
           r == Loads(content)
       IN IF content = <<>> THEN LoadResult(dflt, FALSE)
          ELSE IF r.ok THEN LoadResult(r.val, FALSE)
          ELSE [val |-> JNull, logged |-> FALSE, raised |-> TRUE]

safe_load_json_logs_empty(path, dflt) ==
  IF dir[path] = 0 THEN LoadResult(dflt, FALSE)
  ELSE LET r == Loads(Strip(ino[dir[path]])) IN
       IF r.ok THEN LoadResult(r.val, FALSE) ELSE LoadResult(dflt, TRUE)

safe_load_json(path, dflt) ==
  IF dir[path] = 0 THEN LoadResult(dflt, FALSE)
  ELSE LET content == Strip(ino[dir[path]]) IN
       IF content = <<>> THEN LoadResult(dflt, FALSE)
       ELSE LET r == Loads(content) IN
            IF r.ok THEN LoadResult(r.val, FALSE) ELSE LoadResult(dflt, TRUE)

(***************************************************************************)
(* A thread of control: "main" runs the module's start-up code, the        *)
(* workers run request handlers.                                           *)
(***************************************************************************)
IdleProc ==
  [pc |-> "idle", h |-> "", arg |-> JNull, path |-> "", data |-> JNull,
   loc |-> JNull, live |-> FALSE, buf |-> <<>>, wr |-> 0, fd |-> 0, failed |-> FALSE,
   logged |-> FALSE, raised |-> FALSE, prior |-> NoFile, cont |-> "",
   resp |-> 0, ret |-> JNull, ovl |-> FALSE, was |-> <<>>]

SaveResultBool(failed) == JBool(~failed)

\* what safe_save_json returns: it has no return statement on either path
SaveResult(failed) == JNull

\* the call safe_save_json(path, data); live: data is the collection's own
\* object, serialized as it is when json.dump starts.  logged: the log so far
CallSave(pr, path, data, live, cont) ==
  [pr EXCEPT !.pc = "sv_open", !.path = path, !.data = data, !.live = live,
             !.cont = cont, !.failed = FALSE, !.raised = FALSE, !.ovl = FALSE,
             !.wr = 0, !.buf = <<>>, !.fd = 0, !.prior = FileAt(path)]

SavePcs == {"sv_open", "sv_write", "sv_exists", "sv_remove", "sv_rename"}

\* thread q is inside safe_save_json(path, ...)
InSave(q, path) == proc[q].pc \in SavePcs /\ proc[q].path = path

\* thread p goes on as np, which enters safe_save_json: ovl notes, on both
\* sides, the calls on the same path that run at the same time
Begin(p, np) ==
  [q \in Procs |->
     IF q = p THEN [np EXCEPT !.ovl = \E r \in Procs \ {p} : InSave(r, np.path)]
     ELSE IF InSave(q, np.path) THEN [proc[q] EXCEPT !.ovl = TRUE]
     ELSE proc[q]]

\* the history of a path's saves: the value passed to the one that returned
\* last and whether it ran beside another; stale: that one failed, held: what
\* the file held before the first of the failed saves since the last good one
NoHist == [last |-> JNull, ovl |-> FALSE, stale |-> FALSE, held |-> NoFile]

SaveEnds(p, ok) ==
  hist' = [hist EXCEPT ![proc[p].path] =
             [last |-> proc[p].data, ovl |-> proc[p].ovl, stale |-> ~ok,
              held |-> IF ok THEN NoFile ELSE IF @.stale THEN @.held ELSE proc[p].prior]]

SaveExceptRaises(pr) ==
  [pr EXCEPT !.pc = "sv_done", !.failed = TRUE, !.raised = TRUE, !.fd = 0, !.buf = <<>>]

\* except Exception as e: print, logging.error
SaveExcept(pr) ==
  [pr EXCEPT !.pc = "sv_done", !.failed = TRUE, !.logged = TRUE, !.fd = 0,
             !.buf = <<>>, !.ret = SaveResult(TRUE)]

SetFs(r) == dir' = r.dir /\ ino' = r.ino

\* where the process before this one stopped, if it stopped inside a save:
\* the step it was about to take, the path, the file before the save, the
\* value being saved, the number of requests it had taken
NoHalt == [pc |-> "", path |-> "", prior |-> NoFile, data |-> JNull, ncalls |-> 0]

\* with open(temp_file, 'w') as f:
SvOpen(p) ==
  /\ proc[p].pc = "sv_open"
  /\ LET r == FsOpenW(TempName(proc[p].path)) IN
       /\ SetFs(r)
       /\ proc' = [proc EXCEPT ![p].pc = "sv_write", ![p].fd = r.fd]
  /\ UNCHANGED <<db, phase, conc, faults, clock, rd, calls, pre, base, hist, halted, otp_storage, otp_wins>>

\* json.dump(data, f, indent=4), flushed in NumWrites writes; the last closes f
SvWrite(p) ==
  /\ proc[p].pc = "sv_write"
  /\ LET pr == proc[p]
         val == IF pr.wr = 0 /\ pr.live THEN db[pr.path] ELSE pr.data
         text == IF pr.wr = 0 THEN Dump(val) ELSE pr.buf
         n == pr.wr + 1
         last == n = NumWrites
         written == [ino EXCEPT ![pr.fd] = WriteAt(@, ChunkStart(text, n), Chunk(text, n))]
         np == [proc EXCEPT ![p].data = val,
                            ![p].buf = IF last THEN <<>> ELSE text,
                            ![p].wr = n,
                            ![p].fd = IF last THEN 0 ELSE pr.fd,
                            ![p].pc = IF last THEN "sv_exists" ELSE "sv_write"]
     IN /\ proc' = np
        /\ SetFs(Collect(dir, written, OpenFds(np)))
  /\ UNCHANGED <<db, phase, conc, faults, clock, rd, calls, pre, base, hist, halted, otp_storage, otp_wins>>

\* os.rename alone, as if it replaced the file at filepath
SvExistsNoRemove(p) ==
  /\ proc[p].pc = "sv_exists"
  /\ proc' = [proc EXCEPT ![p].pc = "sv_rename"]
  /\ UNCHANGED <<dir, ino, db, phase, conc, faults, clock, rd, calls, pre, base, hist, halted, otp_storage, otp_wins>>

\* if os.path.exists(filepath):
SvExists(p) ==
  /\ proc[p].pc = "sv_exists"
  /\ proc' = [proc EXCEPT ![p].pc =
                IF dir[proc[p].path] # 0 THEN "sv_remove" ELSE "sv_rename"]
  /\ UNCHANGED <<dir, ino, db, phase, conc, faults, clock, rd, calls, pre, base, hist, halted, otp_storage, otp_wins>>

\* os.remove(filepath); FileNotFoundError when the file has gone meanwhile
SvRemove(p) ==
  /\ proc[p].pc = "sv_remove"
  /\ IF dir[proc[p].path] = 0
     THEN /\ proc' = [proc EXCEPT ![p] = SaveExcept(@)]
          /\ SaveEnds(p, FALSE)
          /\ UNCHANGED <<dir, ino>>
     ELSE /\ proc' = [proc EXCEPT ![p].pc = "sv_rename"]
          /\ SetFs(Collect([dir EXCEPT ![proc[p].path] = 0], ino, OpenFds(proc)))
          /\ hist' = hist
  /\ UNCHANGED <<db, phase, conc, faults, clock, rd, calls, pre, base, halted, otp_storage, otp_wins>>

\* os.rename(temp_file, filepath); FileNotFoundError when temp_file has gone
SvRename(p) ==
  /\ proc[p].pc = "sv_rename"
  /\ LET path == proc[p].path
         tmp == TempName(path)
     IN IF dir[tmp] = 0
        THEN /\ proc' = [proc EXCEPT ![p] = SaveExcept(@)]
             /\ SaveEnds(p, FALSE)
             /\ UNCHANGED <<dir, ino>>
        ELSE /\ proc' = [proc EXCEPT ![p].pc = "sv_done",
                                     ![p].ret = SaveResult(FALSE)]
             /\ SaveEnds(p, TRUE)
             /\ SetFs(Collect([dir EXCEPT ![path] = dir[tmp], ![tmp] = 0],
                              ino, OpenFds(proc)))
  /\ UNCHANGED <<db, phase, conc, faults, clock, rd, calls, pre, base, halted, otp_storage, otp_wins>>

\* the process stops (killed, power lost) while a thread is inside
\* safe_save_json: memory is gone, the directory stays as it is, and the
\* program is started again from its first line
Halt ==
  /\ halted = NoHalt
  /\ \E p \in Procs :
       /\ proc[p].pc \in SavePcs
       /\ halted' = [pc |-> proc[p].pc, path |-> proc[p].path, prior |-> proc[p].prior,
                     data |-> proc[p].data, ncalls |-> Len(calls)]
  /\ SetFs(Collect(dir, ino, {}))
  /\ db' = [path \in PathSet |-> IF Shape(path) = "dict" THEN EmptyDict ELSE EmptyList]
  /\ proc' = [p \in Procs |->
                IF p = "main" THEN [IdleProc EXCEPT !.pc = "init_loop", !.h = "init", !.arg = JInt(1)]
                ELSE IdleProc]
  /\ phase' = "init"
  /\ hist' = [path \in PathSet |-> NoHist]
  /\ otp_storage' = NoOtps
  /\ UNCHANGED <<conc, faults, clock, rd, calls, pre, base, otp_wins>>

\* an I/O error (disk full, permission) raised by open, write, remove or rename
SvFault(p) ==
  /\ proc[p].pc \in {"sv_open", "sv_write", "sv_remove", "sv_rename"}
  /\ faults < MaxFaults
  /\ faults' = faults + 1
  /\ LET np == [proc EXCEPT ![p] = SaveExcept(@)] IN
       /\ proc' = np
       /\ SetFs(Collect(dir, ino, OpenFds(np)))
  /\ SaveEnds(p, FALSE)
  /\ UNCHANGED <<db, phase, conc, clock, rd, calls, pre, base, halted, otp_storage, otp_wins>>

SaveStep(p) == SvOpen(p) \/ SvWrite(p) \/ SvExists(p) \/ SvRemove(p) \/ SvRename(p)

(***************************************************************************)
(* What a collection's file may hold before the process starts.            *)
(***************************************************************************)
PreKinds ==
  <<"absent", "empty", "blank", "junk", "cut", "default", "sample", "wrong", "scalar">>

\* a value of the declared shape that is not the default
Sample(path) ==
  CASE path = "users" ->
         JDict("900" :> JDict([name |-> JStr("asha"), phone |-> JStr("900"),
                               is_banned |-> JBool(TRUE)]))
    [] path = "settings" -> JDict([weekend_discount |-> JInt(10)])
    [] path = "products" ->
         JList(<<JDict([id |-> JInt(101), name |-> JStr("apple")]),
                 JDict([id |-> JInt(102), name |-> JStr("kiwi"), in_stock |-> JBool(FALSE)])>>)
    [] path = "approved" ->
         JList(<<JDict([id |-> JStr("PAY-was"), status |-> JStr("approved")])>>)
    [] OTHER -> JList(<<JDict([id |-> JStr("PAY-old"), status |-> JStr("pending")])>>)

\* valid JSON of the other shape
Wrong(path) == IF Shape(path) = "dict" THEN JList(<<JInt(1)>>) ELSE DefaultSettings

PreContent(kind, path) ==
  CASE kind = "empty" -> <<>>
    [] kind = "blank" -> <<WS(0)>>
    [] kind = "junk" -> <<P("{"), Junk>>
    [] kind = "cut" -> SubSeq(Dump(Sample(path)), 1, Len(Dump(Sample(path))) \div 2)
    [] kind = "default" -> Dump(Default(path))
    [] kind = "sample" -> Dump(Sample(path))
    [] kind = "wrong" -> Dump(Wrong(path))
    [] kind = "scalar" -> Dump(JInt(5))
    [] OTHER -> <<>>

Index(path) == CHOOSE n \in 1..Len(Paths) : Paths[n] = path

\* scenario s gives the n-th collection the (s+n)-th kind, so that every
\* collection meets every kind and every scenario mixes the kinds
Scenario(s) == [path \in PathSet |-> PreKinds[((s + Index(path)) % Len(PreKinds)) + 1]]

MkDir(kinds) ==
  [name \in Names |->
     IF name \in DOMAIN kinds /\ kinds[name] # "absent" THEN Index(name) ELSE 0]

MkIno(kinds) ==
  [j \in {Index(path) : path \in {q \in DOMAIN kinds : kinds[q] # "absent"}} |->
     PreContent(kinds[Paths[j]], Paths[j])]

NoRead == [path |-> "", found |-> FALSE, content |-> <<>>]

(***************************************************************************)
(* The store on its own: one caller saves and loads, one reader reads.     *)
(***************************************************************************)
StorePaths == {"orders", "settings"}

StoreValues ==
  {EmptyList, EmptyDict, JDict([weekend_discount |-> JInt(10)]), JNull, JStr(""),
   JList(<<JInt(0), JDict([id |-> JStr("PAY-0"), status |-> JList(<<JBool(FALSE)>>)])>>)}

Defaults == {EmptyList, EmptyDict, DefaultSettings}

InitStore ==
  /\ \E s \in 1..Len(PreKinds) :
       LET kinds == [path \in StorePaths |-> Scenario(s)[path]] IN
         /\ pre = kinds
         /\ dir = MkDir(kinds)
         /\ ino = MkIno(kinds)
  /\ db = [path \in PathSet |-> Default(path)]
  /\ proc = [p \in Procs |-> IdleProc]
  /\ phase = "store"
  /\ conc = FALSE
  /\ faults = 0
  /\ clock = 0
  /\ rd = NoRead
  /\ calls = <<>>
  /\ base = db
  /\ hist = [path \in PathSet |-> NoHist]
  /\ halted = NoHalt
  /\ otp_storage = NoOtps
  /\ otp_wins = [phone \in Phones |-> 0]

\* safe_save_json(path, val) is called
StoreSave ==
  /\ phase = "store" /\ proc["main"].pc = "idle" /\ Len(calls) < MaxCalls
  /\ \E path \in StorePaths, val \in StoreValues :
       proc' = Begin("main", CallSave([proc["main"] EXCEPT !.h = "save"], path, val, FALSE, "store"))
  /\ calls' = Append(calls, "save")
  /\ rd' = NoRead
  /\ UNCHANGED <<dir, ino, db, phase, conc, faults, clock, pre, base, hist, halted, otp_storage, otp_wins>>

\* safe_save_json has returned
StoreSaveReturn ==
  /\ proc["main"].pc = "sv_done" /\ proc["main"].cont = "store"
  /\ proc' = [proc EXCEPT !["main"] = IdleProc]
  /\ rd' = NoRead
  /\ UNCHANGED <<dir, ino, db, phase, conc, faults, clock, calls, pre, base, hist, halted, otp_storage, otp_wins>>

\* safe_load_json(path, dflt) is called and returns
StoreLoad ==
  /\ phase = "store" /\ proc["main"].pc = "idle" /\ Len(calls) < MaxCalls
  /\ \E path \in StorePaths, dflt \in Defaults :
       LET r == safe_load_json(path, dflt) IN
         proc' = [proc EXCEPT !["main"] =
                    [@ EXCEPT !.pc = "ld_done", !.h = "load", !.path = path,
                              !.data = dflt, !.prior = FileAt(path), !.ret = r.val,
                              !.logged = r.logged, !.raised = r.raised]]
  /\ calls' = Append(calls, "load")
  /\ UNCHANGED <<dir, ino, db, phase, conc, faults, clock, rd, pre, base, hist, halted, otp_storage, otp_wins>>

StoreLoadReturn ==
  /\ proc["main"].pc = "ld_done"
  /\ proc' = [proc EXCEPT !["main"] = IdleProc]
  /\ UNCHANGED <<dir, ino, db, phase, conc, faults, clock, rd, calls, pre, base, hist, halted, otp_storage, otp_wins>>

\* another process opens and reads the file a save is writing, if it is there
Reader ==
  /\ phase = "store"
  /\ proc["main"].pc \in {"sv_open", "sv_write", "sv_exists", "sv_remove", "sv_rename", "sv_done"}
  /\ LET path == proc["main"].path IN
       rd' = [path |-> path, found |-> FileAt(path).found, content |-> FileAt(path).content]
  /\ rd' # rd
  /\ UNCHANGED <<dir, ino, db, proc, phase, conc, faults, clock, calls, pre, base, hist, halted, otp_storage, otp_wins>>

NextStore ==
  \/ StoreSave
  \/ SaveStep("main")
  \/ SvFault("main")
  \/ StoreSaveReturn
  \/ StoreLoad
  \/ StoreLoadReturn
  \/ Reader

SpecStore == InitStore /\ [][NextStore]_vars

(***************************************************************************)
(* Start-up: init_critical_files(), then load_data(), on the main thread.  *)
(***************************************************************************)
\* bool(value), as Python's "if value:" takes it
Truthy(val) ==
  CASE val.k = "null" -> FALSE
    [] val.k = "list" -> val.items # <<>>
    [] val.k = "dict" -> DOMAIN val.map # {}
    [] val.k = "str" -> val.s # ""
    [] OTHER -> val.n # 0

IsDict(val) == val.k = "dict"
IsList(val) == val.k = "list"
Items(val) == {val.items[n] : n \in 1..Len(val.items)}

CorruptedUnlessContainer(content) ==
  LET text == Strip(content) IN
  text = <<>> \/ ~Loads(text).ok \/ Loads(text).val.k \notin {"list", "dict"}

CorruptedWhenEmpty(content) == Strip(content) = <<>>

\* content = f.read().strip(); if not content: raise; json.loads(content) raises
Corrupted(content) ==
  LET text == Strip(content) IN text = <<>> \/ ~Loads(text).ok

\* for fpath, default_val in files.items(): the file is missing, or empty, or
\* does not parse: safe_save_json(fpath, default_val); else it is left alone
InitFile ==
  /\ phase = "init" /\ proc["main"].pc = "init_loop"
  /\ LET n == proc["main"].arg.n
         path == Paths[n]
         bad == ~FileAt(path).found \/ Corrupted(FileAt(path).content)
     IN IF bad
        THEN /\ proc' = Begin("main", CallSave([proc["main"] EXCEPT !.h = "init"],
                                                path, Default(path), FALSE, "init"))
             /\ phase' = phase
        ELSE /\ proc' = [proc EXCEPT !["main"] =
                           IF n = Len(Paths) THEN IdleProc ELSE [@ EXCEPT !.arg = JInt(n + 1)]]
             /\ phase' = IF n = Len(Paths) THEN "load" ELSE phase
  /\ UNCHANGED <<dir, ino, db, conc, faults, clock, rd, calls, pre, base, hist, halted, otp_storage, otp_wins>>

\* safe_save_json has returned to init_critical_files: the next file
InitSaved ==
  /\ phase = "init" /\ proc["main"].pc = "sv_done" /\ proc["main"].cont = "init"
  /\ LET n == proc["main"].arg.n IN
       /\ proc' = [proc EXCEPT !["main"] =
                     IF n = Len(Paths) THEN IdleProc
                     ELSE [IdleProc EXCEPT !.pc = "init_loop", !.h = "init", !.arg = JInt(n + 1)]]
       /\ phase' = IF proc["main"].raised THEN "crashed"
                  ELSE IF n = Len(Paths) THEN "load" ELSE phase
  /\ UNCHANGED <<dir, ino, db, conc, faults, clock, rd, calls, pre, base, hist, halted, otp_storage, otp_wins>>

\* if products_db: for p in products_db: if 'in_stock' not in p: p['in_stock'] = True
\* (a TypeError here ends the import: the process does not start)
StockInitRaises(products) ==
  /\ Truthy(products)
  /\ \/ ~IsList(products) /\ ~IsDict(products)
     \/ IsDict(products) /\ DOMAIN products.map # {"in_stock"}
     \/ IsList(products) /\ \E item \in Items(products) : ~IsDict(item)

StockInitAll(products) ==
  IF IsList(products)
  THEN JList([n \in 1..Len(products.items) |->
                JDict(("in_stock" :> JBool(TRUE)) @@ products.items[n].map)])
  ELSE products

StockInit(products) ==
  IF IsList(products)
  THEN JList([n \in 1..Len(products.items) |->
                LET item == products.items[n] IN
                IF "in_stock" \in DOMAIN item.map THEN item
                ELSE JDict(("in_stock" :> JBool(TRUE)) @@ item.map)])
  ELSE products

LoadData ==
  /\ phase = "load"
  /\ LET loaded == [path \in PathSet |-> safe_load_json(path, Default(path)).val] IN
       IF StockInitRaises(loaded["products"])
       THEN /\ phase' = "crashed"
            /\ db' = loaded
            /\ base' = base
       ELSE /\ phase' = "serving"
            /\ db' = [loaded EXCEPT !["products"] = StockInit(@)]
            /\ base' = db'
  /\ UNCHANGED <<dir, ino, proc, conc, faults, clock, rd, calls, pre, hist, halted, otp_storage, otp_wins>>

(***************************************************************************)
(* Request handlers.  A worker runs one handler at a time; with conc the   *)
(* two workers' handlers interleave between any two steps.                 *)
(***************************************************************************)
CanStart(p) ==
  /\ phase = "serving" /\ proc[p].pc = "idle" /\ Len(calls) < MaxCalls
  /\ conc \/ (p = "w1" /\ \A q \in Workers : proc[q].pc = "idle")

\* the record of an invocation; kept in full where handlers interleave
Call(h, arg, ms) == IF conc THEN [h |-> h, arg |-> arg, ms |-> ms] ELSE [h |-> "", arg |-> JNull, ms |-> 0]

\* return jsonify(...), status: the handler is over (was: the collections as
\* they were when the handler began)
Respond(pr, status) == [IdleProc EXCEPT !.pc = "h_done", !.h = pr.h, !.arg = pr.arg,
                                        !.path = pr.path, !.data = pr.data,
                                        !.failed = pr.failed, !.logged = pr.logged,
                                        !.raised = pr.raised, !.was = pr.was,
                                        !.prior = pr.prior, !.resp = status]

\* dict.get(key, default) on the request body
Get(data, key, dflt) == IF key \in DOMAIN data.map THEN data.map[key] ELSE dflt

\* datetime.now(), in milliseconds: not before the last time read
Now == clock..MaxClock

\* int(datetime.now().timestamp() * 1000) under a prefix
StampId(prefix, ms) == JStr(prefix \o ToString(ms))

\* datetime.now().strftime('%Y-%m-%d %H:%M:%S')
TimeStr(ms) == JStr("T" \o ToString(ms))

HasId(item, id) == IsDict(item) /\ "id" \in DOMAIN item.map /\ item.map["id"] = id

\* ---- api_verify_payment ----
VerifyInputs == {JDict([user |-> JStr("asha")])}

request_entry(data, ms) ==
  JDict([id |-> StampId("PAY-", ms),
         user |-> Get(data, "user", JStr("Unknown")),
         amount |-> Get(data, "amount", JInt(0)),
         timestamp |-> TimeStr(ms),
         status |-> JStr("pending")])

Verify(p) ==
  /\ CanStart(p)
  /\ \E data \in VerifyInputs, ms \in Now :
       LET me == [IdleProc EXCEPT !.was = db, !.h = "verify", !.arg = data] IN
       /\ clock' = ms
       /\ calls' = Append(calls, Call("verify", data, ms))
       /\ IF IsDict(data) /\ IsList(db["pending"])
          THEN LET pend == JList(Append(db["pending"].items, request_entry(data, ms))) IN
               /\ db' = [db EXCEPT !["pending"] = pend]
               /\ proc' = Begin(p, CallSave([me EXCEPT !.loc = StampId("PAY-", ms)],
                                            "pending", pend, TRUE, "verify"))
          ELSE /\ db' = db
               /\ proc' = [proc EXCEPT ![p] = Respond(me, 500)]
  /\ UNCHANGED <<dir, ino, phase, conc, faults, rd, pre, base, hist, halted, otp_storage, otp_wins>>

VerifyReturn(p) ==
  /\ proc[p].pc = "sv_done" /\ proc[p].cont = "verify"
  /\ proc' = [proc EXCEPT ![p] =
                IF @.raised THEN Respond(@, 500) ELSE [Respond(@, 200) EXCEPT !.ret = proc[p].loc]]
  /\ UNCHANGED <<dir, ino, db, phase, conc, faults, clock, rd, calls, pre, base, hist, halted, otp_storage, otp_wins>>

\* ---- api_approve_payment ----
\* the ids a client can ask for: those of the pending requests, and one that
\* no request has
ApproveIds ==
  {JStr("PAY-none")} \cup
  (IF IsList(db["pending"])
   THEN {item.map["id"] : item \in {e \in Items(db["pending"]) : IsDict(e) /\ "id" \in DOMAIN e.map}}
   ELSE {})

\* the loop taking the first request whatever its id
FindReqFirst(items, id, n) == IF Len(items) >= 1 THEN 1 ELSE 0

\* for req in pending_verifications: if req['id'] == req_id: the index of the
\* first match, 0 for none, -1 when an entry before it has no 'id'
RECURSIVE FindReq(_, _, _)
FindReq(items, id, n) ==
  IF n > Len(items) THEN 0
  ELSE IF ~IsDict(items[n]) \/ "id" \notin DOMAIN items[n].map THEN 0 - 1
  ELSE IF items[n].map["id"] = id THEN n
  ELSE FindReq(items, id, n + 1)

\* the loop finds the request and sets req['status'] = 'approved'
Approve(p) ==
  /\ CanStart(p)
  /\ \E id \in ApproveIds :
       LET me == [IdleProc EXCEPT !.was = db, !.h = "approve", !.arg = id]
           pend == db["pending"]
           n == IF IsList(pend) THEN FindReq(pend.items, id, 1)
                ELSE IF Truthy(pend) \/ pend.k \in {"null", "int", "bool"} THEN 0 - 1
                ELSE 0
       IN /\ calls' = Append(calls, Call("approve", id, clock))
          /\ IF n > 0
             THEN LET req == JDict(("status" :> JStr("approved")) @@ pend.items[n].map) IN
                  /\ db' = [db EXCEPT !["pending"] = JList([@.items EXCEPT ![n] = req])]
                  /\ proc' = [proc EXCEPT ![p] = [me EXCEPT !.pc = "ap_append", !.loc = req]]
             ELSE /\ db' = db
                  /\ proc' = [proc EXCEPT ![p] = Respond(me, IF n = 0 THEN 404 ELSE 500)]
  /\ UNCHANGED <<dir, ino, phase, conc, faults, clock, rd, pre, base, hist, halted, otp_storage, otp_wins>>

\* approved_verifications.append(req)
ApAppend(p) ==
  /\ proc[p].pc = "ap_append"
  /\ IF IsList(db["approved"])
     THEN /\ db' = [db EXCEPT !["approved"] = JList(Append(@.items, proc[p].loc))]
          /\ proc' = [proc EXCEPT ![p].pc = "ap_filter"]
     ELSE /\ db' = db
          /\ proc' = [proc EXCEPT ![p] = Respond(@, 500)]
  /\ UNCHANGED <<dir, ino, phase, conc, faults, clock, rd, calls, pre, base, hist, halted, otp_storage, otp_wins>>

\* [r for r in pending_verifications if r['id'] != req_id], not yet assigned
ApFilter(p) ==
  /\ proc[p].pc = "ap_filter"
  /\ LET pend == db["pending"] IN
       IF IsList(pend) /\ \A item \in Items(pend) : IsDict(item) /\ "id" \in DOMAIN item.map
       THEN proc' = [proc EXCEPT ![p].pc = "ap_store",
                                 ![p].loc = JList(SelectSeq(pend.items,
                                              LAMBDA item : ~HasId(item, proc[p].arg)))]
       ELSE proc' = [proc EXCEPT ![p] = Respond(@, 500)]
  /\ UNCHANGED <<dir, ino, db, phase, conc, faults, clock, rd, calls, pre, base, hist, halted, otp_storage, otp_wins>>

\* pending_verifications = <the filtered list>; safe_save_json(PENDING_FILE, ...)
ApStore(p) ==
  /\ proc[p].pc = "ap_store"
  /\ db' = [db EXCEPT !["pending"] = proc[p].loc]
  /\ proc' = Begin(p, CallSave([proc[p] EXCEPT !.loc = JNull], "pending", proc[p].loc,
                               TRUE, "approve1"))
  /\ UNCHANGED <<dir, ino, phase, conc, faults, clock, rd, calls, pre, base, hist, halted, otp_storage, otp_wins>>

\* safe_save_json(APPROVED_FILE, approved_verifications)
ApSaveApproved(p) ==
  /\ proc[p].pc = "sv_done" /\ proc[p].cont = "approve1"
  /\ proc' = IF proc[p].raised THEN [proc EXCEPT ![p] = Respond(@, 500)]
              ELSE Begin(p, CallSave(proc[p], "approved", db["approved"], TRUE, "approve2"))
  /\ UNCHANGED <<dir, ino, db, phase, conc, faults, clock, rd, calls, pre, base, hist, halted, otp_storage, otp_wins>>

ApReturn(p) ==
  /\ proc[p].pc = "sv_done" /\ proc[p].cont = "approve2"
  /\ proc' = [proc EXCEPT ![p] = Respond(@, IF @.raised THEN 500 ELSE 200)]
  /\ UNCHANGED <<dir, ino, db, phase, conc, faults, clock, rd, calls, pre, base, hist, halted, otp_storage, otp_wins>>

\* ---- api_order_post ----
OrderInputs == {JDict([payment |-> JStr("UPI")])}

new_order(data, ms) ==
  LET user == Get(data, "user", EmptyDict)
      payment == Get(data, "payment", JStr("Unknown"))
  IN JDict([id |-> StampId("ORD-", ms),
            time |-> TimeStr(ms),
            name |-> Get(user, "name", JNull),
            phone |-> Get(user, "phone", JNull),
            address |-> Get(user, "address", JNull),
            total |-> Get(data, "total", JInt(0)),
            payment |-> payment,
            items |-> JStr(""),
            cart_details |-> Get(data, "cart", EmptyList),
            delivery_status |-> JStr("Processing"),
            payment_status |-> JStr(IF payment = JStr("UPI") THEN "Paid" ELSE "Pending")])

Order(p) ==
  /\ CanStart(p)
  /\ \E data \in OrderInputs, ms \in Now :
       LET me == [IdleProc EXCEPT !.was = db, !.h = "order", !.arg = data] IN
       /\ clock' = ms
       /\ calls' = Append(calls, Call("order", data, ms))
       /\ IF IsDict(data) /\ IsList(db["orders"])
          THEN LET orders == JList(Append(db["orders"].items, new_order(data, ms))) IN
               /\ db' = [db EXCEPT !["orders"] = orders]
               /\ proc' = Begin(p, CallSave(me, "orders", orders, TRUE, "order"))
          ELSE /\ db' = db
               /\ proc' = [proc EXCEPT ![p] = Respond(me, 500)]
  /\ UNCHANGED <<dir, ino, phase, conc, faults, rd, pre, base, hist, halted, otp_storage, otp_wins>>

OrderReturn(p) ==
  /\ proc[p].pc = "sv_done" /\ proc[p].cont = "order"
  /\ proc' = [proc EXCEPT ![p] = Respond(@, IF @.raised THEN 500 ELSE 200)]
  /\ UNCHANGED <<dir, ino, db, phase, conc, faults, clock, rd, calls, pre, base, hist, halted, otp_storage, otp_wins>>

\* ---- handle_settings (POST) ----
SettingsInputs ==
  {JDict([weekend_discount |-> JInt(10)]), JDict([weekend_discount |-> JInt(5)])}

Settings(p) ==
  /\ CanStart(p)
  /\ \E data \in SettingsInputs :
       LET me == [IdleProc EXCEPT !.was = db, !.h = "settings", !.arg = data] IN
       /\ calls' = Append(calls, Call("settings", data, clock))
       /\ IF IsDict(data) /\ IsDict(db["settings"])
          THEN LET settings == JDict(data.map @@ db["settings"].map) IN
               /\ db' = [db EXCEPT !["settings"] = settings]
               /\ proc' = Begin(p, CallSave(me, "settings", settings, TRUE, "settings"))
          ELSE /\ db' = db
               /\ proc' = [proc EXCEPT ![p] = Respond(me, 500)]
  /\ UNCHANGED <<dir, ino, phase, conc, faults, clock, rd, pre, base, hist, halted, otp_storage, otp_wins>>

SettingsReturn(p) ==
  /\ proc[p].pc = "sv_done" /\ proc[p].cont = "settings"
  /\ proc' = [proc EXCEPT ![p] = Respond(@, IF @.raised THEN 500 ELSE 200)]
  /\ UNCHANGED <<dir, ino, db, phase, conc, faults, clock, rd, calls, pre, base, hist, halted, otp_storage, otp_wins>>

\* ---- api_login ----
LoginInputs ==
  {JDict([name |-> JStr("asha"), phone |-> JStr("900")]), JDict([name |-> JStr("ravi")])}

\* the record api_login stores under the phone number
user_entry(data, ms, users) ==
  LET phone == Get(data, "phone", JStr("Unknown")).s IN
  JDict([name |-> Get(data, "name", JStr("Anonymous")),
         phone |-> Get(data, "phone", JStr("Unknown")),
         address |-> Get(data, "address", JStr("Unknown")),
         email |-> Get(data, "email", JStr("No email provided")),
         last_login |-> TimeStr(ms),
         is_banned |-> IF phone \in DOMAIN users.map
                       THEN Get(users.map[phone], "is_banned", JBool(FALSE))
                       ELSE JBool(FALSE)])

\* the entry api_login puts at the head of recent_activities
login_activity(data, ms) ==
  JDict([time |-> TimeStr(ms), type |-> JStr("login"),
         user |-> Get(data, "name", JStr("Anonymous")),
         details |-> JStr("Logged in from 10.0.0.1")])

\* users_db[phone] = {...}; a banned phone is answered 403 here, the others
\* go on to safe_save_json(USERS_FILE, users_db)
Login(p) ==
  /\ CanStart(p)
  /\ \E data \in LoginInputs, ms \in Now :
       LET me == [IdleProc EXCEPT !.was = db, !.h = "login", !.arg = data, !.loc = JInt(ms)]
           phone == Get(data, "phone", JStr("Unknown"))
           users == db["users"]
       IN /\ clock' = ms
          /\ calls' = Append(calls, Call("login", data, ms))
          /\ IF phone = JStr("Unknown")
             THEN /\ db' = db
                  /\ proc' = [proc EXCEPT ![p] = [me EXCEPT !.pc = "lg_act"]]
             ELSE IF ~IsDict(users) \/ phone.k # "str"
                     \/ (phone.s \in DOMAIN users.map /\ ~IsDict(users.map[phone.s]))
             THEN /\ db' = db
                  /\ proc' = [proc EXCEPT ![p] = Respond(me, 500)]
             ELSE LET entry == user_entry(data, ms, users)
                      stored == JDict((phone.s :> entry) @@ users.map)
                  IN /\ db' = [db EXCEPT !["users"] = stored]
                     /\ proc' = IF Truthy(entry.map["is_banned"])
                                THEN [proc EXCEPT ![p] = Respond([me EXCEPT !.path = "users"], 403)]
                                ELSE Begin(p, CallSave(me, "users", stored, TRUE, "login1"))
  /\ UNCHANGED <<dir, ino, phase, conc, faults, rd, pre, base, hist, halted, otp_storage, otp_wins>>

\* recent_activities.insert(0, {...}); safe_save_json(ACTIVITIES_FILE, ...)
LoginActivity(p) ==
  /\ \/ proc[p].pc = "lg_act"
     \/ proc[p].pc = "sv_done" /\ proc[p].cont = "login1"
  /\ IF proc[p].raised \/ ~IsList(db["activities"])
     THEN /\ db' = db
          /\ proc' = [proc EXCEPT ![p] = Respond(@, 500)]
     ELSE LET acts == JList(<<login_activity(proc[p].arg, proc[p].loc.n)>>
                              \o db["activities"].items)
          IN /\ db' = [db EXCEPT !["activities"] = acts]
             /\ proc' = Begin(p, CallSave(proc[p], "activities", acts, TRUE, "login2"))
  /\ UNCHANGED <<dir, ino, phase, conc, faults, clock, rd, calls, pre, base, hist, halted, otp_storage, otp_wins>>

LoginReturn(p) ==
  /\ proc[p].pc = "sv_done" /\ proc[p].cont = "login2"
  /\ proc' = [proc EXCEPT ![p] = Respond(@, IF @.raised THEN 500 ELSE 200)]
  /\ UNCHANGED <<dir, ino, db, phase, conc, faults, clock, rd, calls, pre, base, hist, halted, otp_storage, otp_wins>>

\* ---- api_complaint (POST) ----
ComplaintInputs == {JDict([type |-> JStr("late")])}

complaint(data, ms) ==
  JDict([id |-> StampId("CMP-", ms),
         time |-> TimeStr(ms),
         order_id |-> Get(data, "order_id", JNull),
         type |-> Get(data, "type", JNull),
         desc |-> Get(data, "description", JNull),
         phone |-> Get(data, "user_phone", JNull),
         status |-> JStr("Open"),
         admin_reply |-> JStr("")])

Complaint(p) ==
  /\ CanStart(p)
  /\ \E data \in ComplaintInputs, ms \in Now :
       LET me == [IdleProc EXCEPT !.was = db, !.h = "complaint", !.arg = data] IN
       /\ clock' = ms
       /\ calls' = Append(calls, Call("complaint", data, ms))
       /\ IF IsDict(data) /\ IsList(db["complaints"])
          THEN LET all == JList(Append(db["complaints"].items, complaint(data, ms))) IN
               /\ db' = [db EXCEPT !["complaints"] = all]
               /\ proc' = Begin(p, CallSave(me, "complaints", all, TRUE, "complaint"))
          ELSE /\ db' = db
               /\ proc' = [proc EXCEPT ![p] = Respond(me, 500)]
  /\ UNCHANGED <<dir, ino, phase, conc, faults, rd, pre, base, hist, halted, otp_storage, otp_wins>>

ComplaintReturn(p) ==
  /\ proc[p].pc = "sv_done" /\ proc[p].cont = "complaint"
  /\ proc' = [proc EXCEPT ![p] = Respond(@, IF @.raised THEN 500 ELSE 200)]
  /\ UNCHANGED <<dir, ino, db, phase, conc, faults, clock, rd, calls, pre, base, hist, halted, otp_storage, otp_wins>>

\* ---- api_add_product ----
AddInputs == {JDict([name |-> JStr("mango"), price |-> JInt(50)])}

\* every product is a dict with an integer 'id'
IntIds(products) ==
  /\ IsList(products)
  /\ \A item \in Items(products) :
       IsDict(item) /\ "id" \in DOMAIN item.map /\ item.map["id"].k = "int"

\* max([p['id'] for p in products_db])
MaxId(products) ==
  CHOOSE m \in {item.map["id"].n : item \in Items(products)} :
    \A item \in Items(products) : item.map["id"].n <= m

\* new_id = max([p['id'] for p in products_db]) + 1 if products_db else 101
NextId(products) == IF Truthy(products) THEN MaxId(products) + 1 ELSE 101

new_product(data, id) ==
  JDict([id |-> JInt(id),
         name |-> Get(data, "name", JNull),
         price |-> Get(data, "price", JInt(0)),
         category |-> Get(data, "category", JStr("Fruits")),
         subCategory |-> JStr("Normal"),
         color |-> Get(data, "color", JStr("#FF8C00")),
         description |-> Get(data, "description", JStr("")),
         rating |-> JInt(5),
         in_stock |-> JBool(TRUE)])

\* data = request.json; new_id = ...; new_product = {...}
AddProduct(p) ==
  /\ CanStart(p)
  /\ \E data \in AddInputs :
       LET me == [IdleProc EXCEPT !.was = db, !.h = "add", !.arg = data]
           products == db["products"]
       IN /\ calls' = Append(calls, Call("add", data, clock))
          /\ IF IsDict(data) /\ (~Truthy(products) \/ IntIds(products))
             THEN proc' = [proc EXCEPT ![p] =
                             [me EXCEPT !.pc = "ad_append",
                                        !.loc = new_product(data, NextId(products))]]
             ELSE proc' = [proc EXCEPT ![p] = Respond(me, 500)]
  /\ UNCHANGED <<dir, ino, db, phase, conc, faults, clock, rd, pre, base, hist, halted, otp_storage, otp_wins>>

\* products_db.append(new_product); safe_save_json(PRODUCTS_FILE, products_db)
AdAppend(p) ==
  /\ proc[p].pc = "ad_append"
  /\ IF IsList(db["products"])
     THEN LET products == JList(Append(db["products"].items, proc[p].loc)) IN
          /\ db' = [db EXCEPT !["products"] = products]
          /\ proc' = Begin(p, CallSave(proc[p], "products", products, TRUE, "add"))
     ELSE /\ db' = db
          /\ proc' = [proc EXCEPT ![p] = Respond(@, 500)]
  /\ UNCHANGED <<dir, ino, phase, conc, faults, clock, rd, calls, pre, base, hist, halted, otp_storage, otp_wins>>

AddReturn(p) ==
  /\ proc[p].pc = "sv_done" /\ proc[p].cont = "add"
  /\ proc' = [proc EXCEPT ![p] =
                IF @.raised THEN Respond(@, 500) ELSE [Respond(@, 200) EXCEPT !.ret = proc[p].loc]]
  /\ UNCHANGED <<dir, ino, db, phase, conc, faults, clock, rd, calls, pre, base, hist, halted, otp_storage, otp_wins>>

\* ---- delete_product ----
\* the ids a client can name: those of the products, and one no product has
DeleteIds ==
  {JInt(999)} \cup
  (IF IsList(db["products"])
   THEN {item.map["id"] : item \in {e \in Items(db["products"]) : IsDict(e) /\ "id" \in DOMAIN e.map}}
   ELSE {})

\* [p for p in products_db if p['id'] != pid], not yet assigned
DeleteProduct(p) ==
  /\ CanStart(p)
  /\ \E pid \in DeleteIds :
       LET me == [IdleProc EXCEPT !.was = db, !.h = "delete", !.arg = pid]
           products == db["products"]
       IN /\ calls' = Append(calls, Call("delete", pid, clock))
          /\ IF IsList(products)
                /\ \A item \in Items(products) : IsDict(item) /\ "id" \in DOMAIN item.map
             THEN proc' = [proc EXCEPT ![p] =
                             [me EXCEPT !.pc = "dl_store",
                                        !.loc = JList(SelectSeq(products.items,
                                                  LAMBDA item : ~HasId(item, pid)))]]
             ELSE IF ~Truthy(products) /\ products.k \in {"dict", "str"}
             THEN proc' = [proc EXCEPT ![p] = [me EXCEPT !.pc = "dl_store", !.loc = EmptyList]]
             ELSE proc' = [proc EXCEPT ![p] = Respond(me, 500)]
  /\ UNCHANGED <<dir, ino, db, phase, conc, faults, clock, rd, pre, base, hist, halted, otp_storage, otp_wins>>

\* products_db = <the filtered list>; safe_save_json(PRODUCTS_FILE, products_db)
DlStore(p) ==
  /\ proc[p].pc = "dl_store"
  /\ db' = [db EXCEPT !["products"] = proc[p].loc]
  /\ proc' = Begin(p, CallSave([proc[p] EXCEPT !.loc = JNull], "products", proc[p].loc,
                               TRUE, "delete"))
  /\ UNCHANGED <<dir, ino, phase, conc, faults, clock, rd, calls, pre, base, hist, halted, otp_storage, otp_wins>>

DeleteReturn(p) ==
  /\ proc[p].pc = "sv_done" /\ proc[p].cont = "delete"
  /\ proc' = [proc EXCEPT ![p] = Respond(@, IF @.raised THEN 500 ELSE 200)]
  /\ UNCHANGED <<dir, ino, db, phase, conc, faults, clock, rd, calls, pre, base, hist, halted, otp_storage, otp_wins>>

\* ---- api_send_otp, api_verify_otp ----
\* generate_otp(): str(random.randint(100000, 999999))
Codes == {"111111", "222222"}

\* a code generate_otp never returns
WrongCode == "000000"

\* the phones a client sends: one that gets codes, one that never asked for
\* one, one that is too short
KnownPhone == "9000000001"
UnknownPhone == "9000000002"
ShortPhone == "12"

\* len(phone)
PhoneLen(phone) == IF phone = ShortPhone THEN 2 ELSE 10

OtpCanStart(p) ==
  /\ phase = "serving" /\ proc[p].pc = "idle" /\ Len(calls) < MaxOtpCalls
  /\ conc \/ (p = "w1" /\ \A q \in Workers : proc[q].pc = "idle")

\* del otp_storage[phone]
Without(storage, phone) == [q \in (DOMAIN storage) \ {phone} |-> storage[q]]

\* otp_storage[phone] = otp
With(storage, phone, otp) ==
  [q \in (DOMAIN storage) \cup {phone} |-> IF q = phone THEN otp ELSE storage[q]]

\* a short phone: 400; else the code is stored; then the SMS provider is
\* called, and the answer is success, or 500 when no provider is configured
\* (error_msg is read before any assignment)
SendOtp(p) ==
  /\ OtpCanStart(p)
  /\ \E phone \in {KnownPhone, ShortPhone}, otp \in Codes, status \in {200, 500} :
       LET me == [IdleProc EXCEPT !.was = db, !.h = "send_otp", !.arg = JStr(phone)] IN
       /\ calls' = Append(calls, Call("send_otp", JStr(phone), clock))
       /\ IF PhoneLen(phone) < 10
          THEN /\ status = 200
               /\ proc' = [proc EXCEPT ![p] = Respond(me, 400)]
               /\ UNCHANGED <<otp_storage, otp_wins>>
          ELSE /\ otp_storage' = With(otp_storage, phone, otp)
               /\ otp_wins' = [otp_wins EXCEPT ![phone] = 0]
               /\ proc' = [proc EXCEPT ![p] = Respond([me EXCEPT !.data = JStr(otp)], status)]
  /\ UNCHANGED <<dir, ino, db, phase, conc, faults, clock, rd, pre, base, hist, halted>>

\* data = request.json; phone = data.get('phone'); user_otp = data.get('otp')
VerifyOtp(p) ==
  /\ OtpCanStart(p)
  /\ \E phone \in {KnownPhone, UnknownPhone}, user_otp \in {"111111", WrongCode} :
       /\ calls' = Append(calls, Call("verify_otp", JStr(phone), clock))
       /\ proc' = [proc EXCEPT ![p] =
                     [IdleProc EXCEPT !.was = db, !.h = "verify_otp", !.pc = "vo_in",
                                      !.arg = JStr(phone), !.data = JStr(user_otp)]]
  /\ UNCHANGED <<dir, ino, db, phase, conc, faults, clock, rd, pre, base, hist, halted,
                 otp_storage, otp_wins>>

\* if phone in otp_storage
VoIn(p) ==
  /\ proc[p].pc = "vo_in"
  /\ proc' = [proc EXCEPT ![p] =
                IF proc[p].arg.s \in DOMAIN otp_storage THEN [@ EXCEPT !.pc = "vo_get"]
                ELSE Respond(@, 400)]
  /\ UNCHANGED <<dir, ino, db, phase, conc, faults, clock, rd, calls, pre, base, hist, halted,
                 otp_storage, otp_wins>>

\* and otp_storage[phone] == user_otp (KeyError when the entry has gone: 500)
VoGet(p) ==
  /\ proc[p].pc = "vo_get"
  /\ LET phone == proc[p].arg.s IN
     proc' = [proc EXCEPT ![p] =
                IF phone \notin DOMAIN otp_storage THEN Respond(@, 500)
                ELSE IF otp_storage[phone] = proc[p].data.s THEN [@ EXCEPT !.pc = "vo_del"]
                ELSE Respond(@, 400)]
  /\ UNCHANGED <<dir, ino, db, phase, conc, faults, clock, rd, calls, pre, base, hist, halted,
                 otp_storage, otp_wins>>

\* del otp_storage[phone]; return success (KeyError when the entry has gone: 500)
VoDel(p) ==
  /\ proc[p].pc = "vo_del"
  /\ LET phone == proc[p].arg.s IN
     IF phone \in DOMAIN otp_storage
     THEN /\ otp_storage' = Without(otp_storage, phone)
          /\ otp_wins' = [otp_wins EXCEPT ![phone] = @ + 1]
          /\ proc' = [proc EXCEPT ![p] = Respond(@, 200)]
     ELSE /\ proc' = [proc EXCEPT ![p] = Respond(@, 500)]
          /\ UNCHANGED <<otp_storage, otp_wins>>
  /\ UNCHANGED <<dir, ino, db, phase, conc, faults, clock, rd, calls, pre, base, hist, halted>>

\* the response has been sent: the worker is free again
Finish(p) ==
  /\ proc[p].pc = "h_done"
  /\ proc' = [proc EXCEPT ![p] = IdleProc]
  /\ UNCHANGED <<dir, ino, db, phase, conc, faults, clock, rd, calls, pre, base, hist, halted, otp_storage, otp_wins>>

InitBoot(kinds, c) ==
  /\ pre = kinds
  /\ dir = MkDir(kinds)
  /\ ino = MkIno(kinds)
  /\ db = [path \in PathSet |-> IF Shape(path) = "dict" THEN EmptyDict ELSE EmptyList]
  /\ base = db
  /\ proc = [p \in Procs |->
               IF p = "main" THEN [IdleProc EXCEPT !.pc = "init_loop", !.h = "init", !.arg = JInt(1)]
               ELSE IdleProc]
  /\ phase = "init"
  /\ conc = c
  /\ faults = 0
  /\ clock = 0
  /\ rd = NoRead
  /\ calls = <<>>
  /\ hist = [path \in PathSet |-> NoHist]
  /\ halted = NoHalt
  /\ otp_storage = NoOtps
  /\ otp_wins = [phone \in Phones |-> 0]

\* any files before start-up; handlers run one at a time
InitSeq == \E s \in 1..Len(PreKinds) : InitBoot(Scenario(s), FALSE)

Boot == InitFile \/ InitSaved \/ LoadData \/ SaveStep("main")

Handler(p) ==
  \/ Verify(p) \/ VerifyReturn(p)
  \/ Approve(p) \/ ApAppend(p) \/ ApFilter(p) \/ ApStore(p) \/ ApSaveApproved(p) \/ ApReturn(p)
  \/ Order(p) \/ OrderReturn(p)
  \/ Settings(p) \/ SettingsReturn(p)
  \/ SaveStep(p)
  \/ Finish(p)

\* every handler modelled
AnyHandler(p) ==
  \/ Handler(p)
  \/ Login(p) \/ LoginActivity(p) \/ LoginReturn(p)
  \/ Complaint(p) \/ ComplaintReturn(p)
  \/ AddProduct(p) \/ AdAppend(p) \/ AddReturn(p)
  \/ DeleteProduct(p) \/ DlStore(p) \/ DeleteReturn(p)

\* the handlers of the product catalogue
ProductHandler(p) ==
  \/ AddProduct(p) \/ AdAppend(p) \/ AddReturn(p)
  \/ DeleteProduct(p) \/ DlStore(p) \/ DeleteReturn(p)
  \/ SaveStep(p)
  \/ Finish(p)

PayHandler(p) ==
  \/ Verify(p) \/ VerifyReturn(p)
  \/ Approve(p) \/ ApAppend(p) \/ ApFilter(p) \/ ApStore(p) \/ ApSaveApproved(p) \/ ApReturn(p)
  \/ SaveStep(p)
  \/ Finish(p)

\* start-up alone, from any files; its saves may fail
NextBoot ==
  \/ Boot
  \/ SvFault("main")

SpecBoot == InitSeq /\ [][NextBoot]_vars

\* start-up, then requests one at a time; the handlers' saves may fail
NextSeq ==
  \/ Boot
  \/ \E p \in Workers : Handler(p)
  \/ \E p \in Workers : SvFault(p)

SpecSeq == InitSeq /\ [][NextSeq]_vars

\* start-up, then requests one at a time; no I/O errors
NextOne ==
  \/ Boot
  \/ \E p \in Workers : AnyHandler(p)

SpecOne == InitSeq /\ [][NextOne]_vars

\* the same, and the process may stop once inside a save and be started again
NextCrash ==
  \/ Boot
  \/ \E p \in Workers : Handler(p)
  \/ Halt

SpecCrash == InitSeq /\ [][NextCrash]_vars

\* start-up, then the OTP handlers on both workers
OtpHandler(p) ==
  \/ SendOtp(p)
  \/ VerifyOtp(p) \/ VoIn(p) \/ VoGet(p) \/ VoDel(p)
  \/ Finish(p)

InitOtp == \E s \in 1..Len(PreKinds) : InitBoot(Scenario(s), TRUE)

NextOtp ==
  \/ Boot
  \/ \E p \in Workers : OtpHandler(p)

SpecOtp == InitOtp /\ [][NextOtp]_vars

\* a first run or a data directory in use; handlers interleave; no I/O errors
FreshKinds == [path \in PathSet |-> "absent"]
UsedKinds == [path \in PathSet |-> "sample"]

InitConc == \E kinds \in {FreshKinds, UsedKinds} : InitBoot(kinds, TRUE)

NextConc ==
  \/ Boot
  \/ \E p \in Workers : PayHandler(p)

SpecConc == InitConc /\ [][NextConc]_vars

\* the same with the product handlers interleaving
NextProd ==
  \/ Boot
  \/ \E p \in Workers : ProductHandler(p)

SpecProd == InitConc /\ [][NextProd]_vars

(***************************************************************************)
(* The store's contract (SpecStore).                                       *)
(***************************************************************************)
Main == proc["main"]

\* C1: while one safe_save_json(path, v) runs over an existing file holding the
\* complete text of u, with no other writer, a concurrent reader that finds a
\* file at path reads exactly the text of u or exactly the text of v; once the
\* save has returned without error the file at path holds the text of v.
C1_ReaderSeesOldOrNew ==
  (Main.h = "save" /\ Main.pc # "idle" /\ Main.prior.found /\ Complete(Main.prior.content)) =>
    /\ (rd.path = Main.path /\ rd.found) =>
         rd.content \in {Main.prior.content, Dump(Main.data)}
    /\ (Main.pc = "sv_done" /\ ~Main.failed) =>
         FileAt(Main.path) = [found |-> TRUE, content |-> Dump(Main.data)]

\* a reader read the old text during a save that then put a different text
C1_Witness ==
  /\ Main.h = "save" /\ Main.pc = "sv_done" /\ ~Main.failed
  /\ Main.prior.found /\ Complete(Main.prior.content)
  /\ Main.prior.content # Dump(Main.data)
  /\ rd.path = Main.path /\ rd.found /\ rd.content = Main.prior.content

\* C4: after a successful safe_save_json(path, v) with no other writer,
\* safe_load_json(path, d) returns v for every default d, whatever the file
\* held before.
C4_RoundTrip ==
  (Main.h = "save" /\ Main.pc = "sv_done" /\ ~Main.failed) =>
    \A dflt \in Defaults : safe_load_json(Main.path, dflt).val = Main.data

\* an empty list was saved over a file that did not parse
C4_Witness ==
  /\ Main.h = "save" /\ Main.pc = "sv_done" /\ ~Main.failed
  /\ Main.data = EmptyList
  /\ Main.prior.found /\ ~Complete(Main.prior.content)
  /\ safe_load_json(Main.path, DefaultSettings).val = EmptyList

\* C5: safe_load_json(path, d) on a path with no file returns d and changes
\* no file: path is still absent, no other file is created or modified.
C5_LoadAbsent ==
  [][(proc["main"].pc = "idle" /\ proc'["main"].pc = "ld_done"
        /\ dir[proc'["main"].path] = 0) =>
       /\ proc'["main"].ret = proc'["main"].data
       /\ ~proc'["main"].raised
       /\ dir' = dir /\ ino' = ino]_vars

\* a load of an absent file that returned the settings default
C5_Witness ==
  /\ Main.pc = "ld_done" /\ ~Main.prior.found /\ ~FileAt(Main.path).found
  /\ Main.data = DefaultSettings /\ Main.ret = DefaultSettings

\* C6: safe_load_json(path, d) on a file that is empty, holds only
\* whitespace or does not parse (truncated JSON included) returns d, raises
\* nothing and leaves the file's content as it was.
C6_LoadCorrupt ==
  (Main.pc = "ld_done" /\ Main.prior.found /\ ~Complete(Main.prior.content)) =>
    /\ Main.ret = Main.data
    /\ ~Main.raised
    /\ FileAt(Main.path) = Main.prior

\* a load of a truncated file that returned the default
C6_Witness ==
  /\ Main.pc = "ld_done" /\ Main.prior.found
  /\ Main.prior.content = PreContent("cut", Main.path)
  /\ Main.ret = Main.data /\ Main.logged

FileValue(path) == Loads(Strip(FileAt(path).content)).val

Between == phase = "serving" /\ \A p \in Workers : proc[p].pc = "idle"

Rewritten == {"absent", "empty", "blank", "junk", "cut"}

\* C8 as stated: when safe_save_json fails inside a mutating handler, no
\* exception leaves it, the mutation made in memory is kept, the handler goes
\* on to its normal response, and the value in memory differs from the file
\* until a later save of the collection succeeds.
C8_CacheDiffersFromFile ==
  /\ \A p \in Workers :
       /\ (proc[p].pc = "sv_done" /\ proc[p].failed) =>
            ~proc[p].raised /\ db[proc[p].path] = proc[p].data
       /\ (proc[p].pc = "h_done" /\ proc[p].logged) => proc[p].resp = 200
  /\ \A path \in PathSet :
       (phase = "serving" /\ hist[path].stale) =>
         ~(FileAt(path).found /\ Complete(FileAt(path).content)
             /\ FileValue(path) = db[path])

\* C8 as amended: when safe_save_json fails inside a mutating handler, no
\* exception leaves it, the mutation made in memory is kept, the handler goes
\* on to its normal response, and until a later save of the collection
\* succeeds the file holds what it held before the failed save or is missing:
\* it never takes the new value, and equals the value in memory only when the
\* mutation left the value as the file already had it.
C8_FileKeepsOldContent ==
  /\ \A p \in Workers :
       /\ (proc[p].pc = "sv_done" /\ proc[p].failed) =>
            ~proc[p].raised /\ db[proc[p].path] = proc[p].data
       /\ (proc[p].pc = "h_done" /\ proc[p].logged) => proc[p].resp = 200
  /\ \A path \in PathSet :
       (phase = "serving" /\ hist[path].stale) =>
         FileAt(path) \in {hist[path].held, NoFile}

\* an order was answered with 200 although its save failed; orders.json still
\* holds the list without the order
C8_Witness ==
  \E p \in Workers :
    /\ proc[p].pc = "h_done" /\ proc[p].h = "order" /\ proc[p].failed
    /\ proc[p].resp = 200
    /\ hist["orders"].stale /\ FileAt("orders") = hist["orders"].held
    /\ FileAt("orders").found /\ Complete(FileAt("orders").content)
    /\ Len(db["orders"].items) = Len(FileValue("orders").items) + 1

\* C9: after init_critical_files has run with every save succeeding, each of
\* the ten files exists and parses as JSON, and a file that was missing, empty
\* or unparsable before start-up parses to the collection's default.
C9_BootstrapResult ==
  (phase = "load" /\ faults = 0) =>
    \A path \in PathSet :
      /\ FileAt(path).found
      /\ Complete(FileAt(path).content)
      /\ (pre[path] \in Rewritten) => FileValue(path) = Default(path)

\* start-up found orders.json holding "{not json" and settings.json missing
\* or cut short, and left [] and {weekend_discount: 5}
C9_Witness ==
  /\ phase = "load" /\ faults = 0
  /\ pre["orders"] = "junk" /\ FileValue("orders") = EmptyList
  /\ pre["settings"] \in Rewritten /\ FileValue("settings") = DefaultSettings
  /\ \E path \in PathSet : pre[path] = "absent" /\ FileAt(path).found

VerifyAlone(cols, c) ==
  IF IsDict(c.arg) /\ IsList(cols["pending"])
  THEN [cols EXCEPT !["pending"] = JList(Append(@.items, request_entry(c.arg, c.ms)))]
  ELSE cols

\* api_approve_payment run alone on the collections cols
ApproveAlone(cols, c) ==
  LET pend == cols["pending"]
      n == IF IsList(pend) THEN FindReq(pend.items, c.arg, 1) ELSE 0 - 1
  IN IF n <= 0 THEN cols
     ELSE LET req == JDict(("status" :> JStr("approved")) @@ pend.items[n].map)
              marked == JList([pend.items EXCEPT ![n] = req])
          IN IF ~IsList(cols["approved"]) THEN [cols EXCEPT !["pending"] = marked]
             ELSE IF \E item \in Items(marked) : ~IsDict(item) \/ "id" \notin DOMAIN item.map
             THEN [cols EXCEPT !["pending"] = marked,
                               !["approved"] = JList(Append(@.items, req))]
             ELSE [cols EXCEPT !["pending"] =
                                 JList(SelectSeq(marked.items, LAMBDA item : ~HasId(item, c.arg))),
                               !["approved"] = JList(Append(@.items, req))]

\* the calls run one after the other in the order f, from the collections cols
RECURSIVE Serial(_, _, _)
Serial(cols, f, n) ==
  IF n > Len(calls) THEN cols
  ELSE LET c == calls[f[n]] IN
       Serial(IF c.h = "verify" THEN VerifyAlone(cols, c) ELSE ApproveAlone(cols, c), f, n + 1)

SerialResults == {Serial(base, f, 1) : f \in Permutations(1..Len(calls))}

PayPaths == {"pending", "approved"}

\* C2: for any interleaving of handler invocations that mutate a collection
\* and save it, once all of them have finished the collection's file holds a
\* complete JSON value equal to the result of applying the mutations in some
\* serial order, never a mix of two writes.
C2_SerialOutcome ==
  (Between /\ Len(calls) >= 2) =>
    \A path \in PayPaths :
      /\ FileAt(path).found
      /\ Complete(FileAt(path).content)
      /\ \E cols \in SerialResults : FileValue(path) = cols[path]

\* two payment requests were filed at the same time, both were answered, and
\* pending.json is gone
C2_Witness ==
  /\ Between /\ Len(calls) = 2
  /\ calls[1].h = "verify" /\ calls[2].h = "verify"
  /\ Len(db["pending"].items) = Len(base["pending"].items) + 2
  /\ ~FileAt("pending").found

\* C3: when two safe_save_json calls on the same path have run at the same
\* time and both have finished, the file at path exists and holds the
\* complete value passed to the one that finished last (the collection as
\* that call wrote it, or as it is now: the calls pass the collection itself).
C3_LastSaveWins ==
  \A path \in PathSet :
    (hist[path].ovl /\ \A q \in Procs : ~InSave(q, path)) =>
      /\ FileAt(path).found
      /\ FileAt(path).content \in {Dump(hist[path].last), Dump(db[path])}

\* two saves of pending.json ran at the same time; the one that finished last
\* failed in os.rename and left no file
C3_Witness ==
  /\ hist["pending"].ovl /\ hist["pending"].stale
  /\ \A q \in Procs : ~InSave(q, "pending")
  /\ ~FileAt("pending").found

(***************************************************************************)
(* What safe_load_json logs (SpecStore).                                   *)
(***************************************************************************)
\* C15 as stated: safe_load_json logs the failure in both default-returning
\* cases of an existing file, the empty (or whitespace-only) file and the
\* file that does not parse, before it returns the default.
C15_LogsBothCases ==
  (Main.pc = "ld_done" /\ Main.prior.found /\ ~Complete(Main.prior.content)) =>
    Main.ret = Main.data /\ Main.logged

\* C15 as amended: safe_load_json returns the default for an existing file
\* in both cases, but logs only when the content fails to parse; for an empty
\* or whitespace-only file it returns the default without any log entry.
C15_LogsParseFailureOnly ==
  (Main.pc = "ld_done" /\ Main.prior.found /\ ~Complete(Main.prior.content)) =>
    /\ Main.ret = Main.data
    /\ Main.logged = (Strip(Main.prior.content) # <<>>)

\* a load of a whitespace-only file returned the default and logged nothing
C15_Witness ==
  /\ Main.pc = "ld_done" /\ Main.prior.found
  /\ Main.prior.content = PreContent("blank", Main.path)
  /\ Main.ret = Main.data /\ ~Main.logged

(***************************************************************************)
(* Start-up on its own (SpecBoot).                                         *)
(***************************************************************************)
Untouched(path) ==
  /\ FileAt(path) = [found |-> TRUE, content |-> PreContent(pre[path], path)]
  /\ dir[TempName(path)] = 0
  /\ hist[path] = NoHist

\* C13: init_critical_files leaves every collection file that already holds
\* non-empty parsable JSON byte for byte as it was, whatever the shape of the
\* JSON; only missing, empty or unparsable files are written.
C13_ParsableFilesUntouched ==
  /\ \A path \in PathSet : (pre[path] \notin Rewritten) => Untouched(path)
  /\ (phase = "load") =>
       \A path \in PathSet : (pre[path] \in Rewritten) <=> (hist[path] # NoHist)

\* init_critical_files is over: orders.json, which held a mapping, still holds
\* it, a file that held a bare number still holds it, and a file that did not
\* parse has been saved
C13_Witness ==
  /\ phase = "load"
  /\ pre["orders"] = "wrong" /\ FileAt("orders").content = Dump(DefaultSettings)
  /\ \E path \in PathSet : pre[path] = "scalar" /\ FileAt(path).content = <<NumTok(5)>>
  /\ \E path \in PathSet : pre[path] = "junk" /\ hist[path] # NoHist

\* C14 as stated: after start-up with every save succeeding and before any
\* request, the in-memory value of every collection equals the parsed
\* content of its file, for every file content present before start-up.
C14_MemoryEqualsFiles ==
  (phase = "serving" /\ faults = 0 /\ calls = <<>>) =>
    \A path \in PathSet : db[path] = FileValue(path)

\* the product as load_data holds it: 'in_stock': True added when it has none
WithStock(item) ==
  IF "in_stock" \in DOMAIN item.map THEN item
  ELSE JDict(("in_stock" :> JBool(TRUE)) @@ item.map)

\* C14 as amended: after a start-up that completes with every save
\* succeeding and before any request, the in-memory value of every
\* collection but products equals the parsed content of its file; products
\* equals the parsed file with 'in_stock': true added, in memory only, to
\* each product that has no such key.
C14_MemoryEqualsFilesButStock ==
  (phase = "serving" /\ faults = 0 /\ calls = <<>>) =>
    /\ \A path \in PathSet \ {"products"} : db[path] = FileValue(path)
    /\ LET file == FileValue("products") IN
       IF IsList(file)
       THEN /\ IsList(db["products"])
            /\ Len(db["products"].items) = Len(file.items)
            /\ \A n \in 1..Len(file.items) :
                 db["products"].items[n] = WithStock(file.items[n])
       ELSE db["products"] = file

\* start-up is over: the first product is in stock in memory while
\* product.json does not say so, the second is out of stock in both, and
\* orders.json, which held a mapping, was loaded as it is
C14_Witness ==
  /\ phase = "serving" /\ faults = 0 /\ calls = <<>>
  /\ pre["products"] = "sample"
  /\ "in_stock" \notin DOMAIN FileValue("products").items[1].map
  /\ db["products"].items[1].map["in_stock"] = JBool(TRUE)
  /\ db["products"].items[2].map["in_stock"] = JBool(FALSE)
  /\ \E path \in PathSet : pre[path] = "wrong" /\ db[path] = Wrong(path)

(***************************************************************************)
(* Every handler, one request at a time, no I/O errors (SpecOne).          *)
(***************************************************************************)
\* the file of path holds, complete, the value the collection has in memory
Flushed(path) ==
  FileAt(path).found /\ Complete(FileAt(path).content) /\ FileValue(path) = db[path]

\* C11: running handlers one at a time with all saves succeeding, after each
\* handler returns, on any of its return paths (api_login answering 403 to a
\* banned phone included), the file of every collection whose in-memory
\* value it changed equals that value (taken here for the handlers that end
\* in a return statement, not in an exception answered with 500).
C11_ChangedMeansSaved ==
  \A p \in Workers :
    (proc[p].pc = "h_done" /\ proc[p].resp # 500) =>
      \A path \in PathSet : (db[path] # proc[p].was[path]) => Flushed(path)

\* api_login has answered 403 to a banned phone: the user's record in memory
\* has a new last_login, users.json still has the old record
C11_Witness ==
  \E p \in Workers :
    /\ proc[p].pc = "h_done" /\ proc[p].h = "login" /\ proc[p].resp = 403
    /\ db["users"] # proc[p].was["users"]
    /\ FileValue("users") = proc[p].was["users"]
    /\ "last_login" \in DOMAIN db["users"].map["900"].map
    /\ "last_login" \notin DOMAIN FileValue("users").map["900"].map

(***************************************************************************)
(* A stop between os.remove and os.rename (SpecCrash).                     *)
(***************************************************************************)
\* the previous process stopped after removing the file at its path and
\* before renaming the temp file over it
Window == halted.pc = "sv_rename" /\ halted.prior.found

\* the new process has taken no request yet
FreshStart == Len(calls) = halted.ncalls /\ \A p \in Workers : proc[p].pc = "idle"

\* the value the file held before the save that was cut, if it parsed
PriorParsed == Loads(Strip(halted.prior.content))

\* C12: a save over an existing file passes through a state where no file is at
\* the path and the new content is only in the temp file; when the process
\* stops there, the path stays without a file and the temp file keeps the new
\* content until the next start-up reaches the path, that start-up writes the
\* path's default to it through the same temp file, and the cache then holds
\* that default
C12_WindowThenDefault ==
  /\ \A p \in Procs :
       (proc[p].pc = "sv_rename" /\ proc[p].prior.found) =>
         /\ ~FileAt(proc[p].path).found
         /\ FileAt(TempName(proc[p].path)).content = Dump(proc[p].data)
  /\ (Window /\ phase = "init" /\ Main.pc = "init_loop" /\ Main.arg.n <= Index(halted.path)) =>
       /\ ~FileAt(halted.path).found
       /\ FileAt(TempName(halted.path)).content = Dump(halted.data)
  /\ (Window /\ phase = "load") =>
       FileAt(halted.path).content = Dump(Default(halted.path))
  /\ (Window /\ phase = "serving" /\ FreshStart) =>
       /\ db[halted.path] = Default(halted.path)
       /\ FileAt(halted.path).content = Dump(Default(halted.path))
       /\ ~FileAt(TempName(halted.path)).found

\* C12 as stated: moreover the value loaded after such a stop is neither the
\* value the file held before the save nor the value that was being saved
C12_NeitherPriorNorNew ==
  /\ C12_WindowThenDefault
  /\ (Window /\ phase = "serving" /\ FreshStart) =>
       /\ db[halted.path] # halted.data
       /\ PriorParsed.ok => db[halted.path] # PriorParsed.val

\* a stop in the window lost both values: the cache holds the default and
\* the temp file that held the value being saved is gone
C12_Witness ==
  /\ Window /\ phase = "serving" /\ FreshStart
  /\ db[halted.path] = Default(halted.path)
  /\ db[halted.path] # halted.data
  /\ PriorParsed.ok /\ PriorParsed.val # db[halted.path]
  /\ ~FileAt(TempName(halted.path)).found

(***************************************************************************)
(* api_approve_payment, one request at a time (SpecOne).                   *)
(***************************************************************************)
\* a list of entries that each have an id
Entries(v) == IsList(v) /\ \A item \in Items(v) : IsDict(item) /\ "id" \in DOMAIN item.map

\* the entries of a list whose id is not id, in order
Others(v, id) == SelectSeq(v.items, LAMBDA item : ~HasId(item, id))

\* worker p has answered an approval that began with both lists well formed
Approved(p) ==
  /\ proc[p].pc = "h_done" /\ proc[p].h = "approve"
  /\ Entries(proc[p].was["pending"]) /\ Entries(proc[p].was["approved"])

\* the approval of an id that was pending: success, the id left pending, it is
\* in approved with status 'approved', the other entries are as they were, and
\* both files hold the lists
ApprovedPresent(p) ==
  LET id == proc[p].arg
      was == proc[p].was
  IN (\E item \in Items(was["pending"]) : HasId(item, id)) =>
       /\ proc[p].resp = 200
       /\ ~\E item \in Items(db["pending"]) : HasId(item, id)
       /\ \E item \in Items(db["approved"]) :
            /\ HasId(item, id)
            /\ "status" \in DOMAIN item.map /\ item.map["status"] = JStr("approved")
       /\ Others(db["pending"], id) = Others(was["pending"], id)
       /\ Others(db["approved"], id) = Others(was["approved"], id)
       /\ \A path \in PathSet \ {"pending", "approved"} : db[path] = was[path]
       /\ Flushed("pending") /\ Flushed("approved")

\* the approval of an id that was not pending: 404 and the lists as they were
ApprovedAbsent(p) ==
  LET id == proc[p].arg
      was == proc[p].was
  IN (~\E item \in Items(was["pending"]) : HasId(item, id)) =>
       /\ proc[p].resp = 404
       /\ db = was

\* the step in which an approval answers 404
Answers404 ==
  \E p \in Workers :
    /\ proc[p].pc = "idle"
    /\ proc'[p].pc = "h_done" /\ proc'[p].h = "approve" /\ proc'[p].resp = 404

api_check_payment_status(id) ==
  IF ~Entries(db["pending"]) \/ ~Entries(db["approved"]) THEN "error"
  ELSE IF \E item \in Items(db["pending"]) : HasId(item, id) THEN "pending"
  ELSE IF \E item \in Items(db["approved"]) : HasId(item, id) THEN "approved"
  ELSE LET disk_approved == safe_load_json("approved", EmptyList).val IN
       IF ~Entries(disk_approved) THEN "error"
       ELSE IF \E item \in Items(disk_approved) : HasId(item, id) THEN "approved"
       ELSE "not_found"

\* the ids api_verify_payment has handed out
VerifyIds ==
  {StampId("PAY-", calls[n].ms) : n \in {m \in 1..Len(calls) : calls[m].h = "verify"}}

\* the ids of the api_verify_payment calls that have not returned yet
VerifyRunning ==
  {proc[p].loc : p \in {q \in Workers : proc[q].h = "verify" /\ proc[q].pc \notin {"idle", "h_done"}}}

\* no save of a payment list is under way
PaySavesOver == \A p \in Workers, path \in PayPaths : ~InSave(p, path)

\* the list at path, in memory or in the file, has an entry with this id
Listed(v, id) == IsList(v) /\ \E item \in Items(v) : HasId(item, id)

\* C17: a payment request whose api_verify_payment call has returned success
\* is in the pending or the approved list at every later point, in the files
\* too once no save is under way, and api_check_payment_status never answers
\* not_found for it
C17_NeverLost ==
  phase = "serving" =>
    \A id \in VerifyIds \ VerifyRunning :
      /\ Listed(db["pending"], id) \/ Listed(db["approved"], id)
      /\ api_check_payment_status(id) # "not_found"
      /\ PaySavesOver => Listed(FileValue("pending"), id) \/ Listed(FileValue("approved"), id)

\* api_verify_payment returned an id while an approval of another request held
\* its filtered list; the approval then stored that list: all handlers have
\* returned and the id is in no list and no file
C17_Witness ==
  /\ Between
  /\ \E id \in VerifyIds :
       /\ ~Listed(db["pending"], id) /\ ~Listed(db["approved"], id)
       /\ ~Listed(FileValue("pending"), id) /\ ~Listed(FileValue("approved"), id)
       /\ api_check_payment_status(id) = "not_found"
       /\ \E n \in 1..Len(calls) : calls[n].h = "approve" /\ calls[n].arg # id

\* the ids of a list's entries, in order
IdsOf(v) == [n \in 1..Len(v.items) |-> v.items[n].map["id"]]

\* no id twice in approved, no id in both pending and approved
OncePerId(cols) ==
  /\ Entries(cols["pending"]) /\ Entries(cols["approved"])
  /\ LET app == IdsOf(cols["approved"])
         pend == IdsOf(cols["pending"])
     IN /\ \A m, n \in 1..Len(app) : app[m] = app[n] => m = n
        /\ \A m \in 1..Len(app), n \in 1..Len(pend) : app[m] # pend[n]

\* C18: when the lists loaded at start-up hold no id twice in approved and no
\* id in both lists, the same is true whenever all handlers have returned,
\* whatever the interleaving of the approvals, two of the same id included
C18_ApprovedOnce == (Between /\ OncePerId(base)) => OncePerId(db)

\* two approvals of the same id have both returned success and the request
\* is in approved twice, in memory and in the file
C18_Witness ==
  /\ Between /\ OncePerId(base)
  /\ Len(calls) = 2 /\ calls[1].h = "approve" /\ calls[2] = calls[1]
  /\ \E m, n \in 1..Len(db["approved"].items) :
       /\ m # n
       /\ HasId(db["approved"].items[m], calls[1].arg)
       /\ HasId(db["approved"].items[n], calls[1].arg)
  /\ FileValue("approved") = db["approved"]

(***************************************************************************)
(* Ids taken from the millisecond clock (SpecOne).                         *)
(***************************************************************************)
NoTwice(ids) == \A m, n \in 1..Len(ids) : ids[m] = ids[n] => m = n

\* within each collection that is a list of entries, no id twice: pending and
\* approved taken together, orders, complaints
UniqueIds(cols) ==
  /\ (Entries(cols["pending"]) /\ Entries(cols["approved"])) =>
       NoTwice(IdsOf(cols["pending"]) \o IdsOf(cols["approved"]))
  /\ Entries(cols["orders"]) => NoTwice(IdsOf(cols["orders"]))
  /\ Entries(cols["complaints"]) => NoTwice(IdsOf(cols["complaints"]))

\* C19: when the collections loaded at start-up hold no id twice, then after
\* any sequence of api_verify_payment, api_order_post and api_complaint calls
\* (and approvals), calls in the same millisecond included, no two payment
\* requests share an id, no two orders do, and no two complaints do
C19_ClockIdsUnique == (Between /\ UniqueIds(base)) => UniqueIds(db)

\* two api_verify_payment calls one after the other read the same millisecond
\* and the pending list, in memory and in the file, holds their id twice
C19_Witness ==
  /\ Between /\ UniqueIds(base)
  /\ base["pending"] = EmptyList
  /\ Len(db["pending"].items) = 2
  /\ db["pending"].items[1].map["id"] = db["pending"].items[2].map["id"]
  /\ FileValue("pending") = db["pending"]

(***************************************************************************)
(* Product ids under interleaved handlers (SpecProd).                      *)
(***************************************************************************)
\* products with integer ids, no two the same
DistinctProducts(products) == IntIds(products) /\ NoTwice(IdsOf(products))

\* the id api_add_product gave the product it is about to append: 101 for an
\* empty collection, else one more than the largest id it saw
AssignedAsStated(p) ==
  LET seen == proc[p].was["products"] IN
  proc[p].loc.map["id"] = JInt(IF seen.items = <<>> THEN 101 ELSE MaxId(seen) + 1)

\* C20: starting from products with pairwise distinct integer ids, the ids in
\* products_db stay pairwise distinct under any interleaving of
\* api_add_product and delete_product, and api_add_product assigns 101 to the
\* first product of an empty collection and else the largest id plus one
C20_ProductIdsDistinct ==
  (phase = "serving" /\ DistinctProducts(base["products"])) =>
    /\ DistinctProducts(db["products"])
    /\ \A p \in Workers : proc[p].pc = "ad_append" => AssignedAsStated(p)

\* two api_add_product calls have both returned success and products_db, in
\* memory and in the file, holds two products with the same id
C20_Witness ==
  /\ Between /\ DistinctProducts(base["products"])
  /\ Len(calls) = 2 /\ calls[1].h = "add" /\ calls[2].h = "add"
  /\ IntIds(db["products"])
  /\ \E m, n \in 1..Len(db["products"].items) :
       m # n /\ db["products"].items[m].map["id"] = db["products"].items[n].map["id"]
  /\ FileValue("products") = db["products"]

(***************************************************************************)
(* One-time passwords under interleaved handlers (SpecOtp).                *)
(***************************************************************************)
\* api_verify_otp has answered worker p's request
OtpAnswered(p) == proc[p].pc = "h_done" /\ proc[p].h = "verify_otp"

\* the request carried a code no api_send_otp stores, or a phone that no code
\* was ever stored for
WrongOrUnknown(p) == proc[p].data.s = WrongCode \/ proc[p].arg.s = UnknownPhone

\* since the last api_send_otp that stored a code for a phone, at most one
\* api_verify_otp for it has returned success
OneSuccessPerCode == \A phone \in Phones : otp_wins[phone] <= 1

\* the steps of an api_verify_otp with a wrong code or an unknown phone
WrongOrUnknownStep ==
  \E p \in Workers :
    /\ proc[p].h = "verify_otp" /\ proc[p].pc \in {"vo_in", "vo_get", "vo_del"}
    /\ WrongOrUnknown(p)
    /\ proc'[p] # proc[p]

\* C21: for each api_send_otp that stores a code for a phone at most one
\* api_verify_otp for that phone returns success until the next api_send_otp
\* for it, under any interleaving; an api_verify_otp with a wrong code or an
\* unknown phone answers 400 and leaves otp_storage unchanged
C21_OtpUsableOnce ==
  /\ [](OneSuccessPerCode)
  /\ [](\A p \in Workers : (OtpAnswered(p) /\ WrongOrUnknown(p)) => proc[p].resp = 400)
  /\ [][WrongOrUnknownStep => UNCHANGED otp_storage]_vars

\* an api_verify_otp with a wrong code was answered 500: the entry it had
\* found was deleted by another api_verify_otp, which returned success, before
\* it read the stored code
C21_Witness ==
  \E p, q \in Workers :
    /\ OtpAnswered(p) /\ proc[p].data.s = WrongCode /\ proc[p].arg.s = KnownPhone
    /\ proc[p].resp = 500
    /\ OtpAnswered(q) /\ proc[q].resp = 200 /\ proc[q].arg.s = KnownPhone
    /\ otp_wins[KnownPhone] = 1
    /\ KnownPhone \notin DOMAIN otp_storage

====
